---- MODULE Spec2Model ----
(***************************************************************************)
(* Model of src/task.py: the PrivatBank exchange-rate command line tool.   *)
(*                                                                         *)
(* Python values are modelled as follows.                                  *)
(*   - a dict is a TLA+ function whose DOMAIN is the dict's key set; the   *)
(*     empty dict {} is the function with the empty domain (EmptyDict);    *)
(*   - a list is a sequence; a str that the program only copies or         *)
(*     compares is a TLA+ string; a str that the program parses            *)
(*     (sys.argv entries) is a sequence of one-character strings;          *)
(*   - None is the string "None" where a str may stand, and the record     *)
(*     NoneData where a dict may stand (a JSON null body);                 *)
(*   - a rate number is an opaque string ("38.5"): the program only copies *)
(*     it.                                                                 *)
(***************************************************************************)
EXTENDS Integers, Sequences, FiniteSets, TLC

(***************************************************************************)
(* Bounds of the model.                                                    *)
(***************************************************************************)
MaxBatch == 3
MaxTicks == 1
MaxEntries == 2
MaxWanted == 2
StartDay == 60

(***************************************************************************)
(* Python values.                                                          *)
(***************************************************************************)
None == "None"
EmptyDict == [k \in {} |-> None]
NoneData == [pyNone |-> TRUE]

\* dict.get(key) and dict.get(key, default)
Get(d, key, default) == IF key \in DOMAIN d THEN d[key] ELSE default

\* bool(data) for a value that is None or a dict
TruthyDict(data) == data # NoneData /\ DOMAIN data # {}

\* bool(x) for the value of data.get("exchangeRate"): None or a list
TruthyList(x) == x # None /\ x # <<>>

\* x in list
InList(x, list) == \E j \in 1..Len(list) : list[j] = x

\* the keys of {currency: {} for currency in currencies}
ListItems(list) == {list[j] : j \in 1..Len(list)}

(***************************************************************************)
(* ExchangeRateProcessor.process_exchange_rates                            *)
(***************************************************************************)
\* the record of lines 42-45 with the two rates exchanged
RateRecordSwapped(rate) ==
    [sale |-> Get(rate, "purchaseRateNB", None),
     purchase |-> Get(rate, "saleRateNB", None)]

\* the record written for one matching rate entry (lines 42-45)
RateRecord(rate) ==
    [sale |-> Get(rate, "saleRateNB", None),
     purchase |-> Get(rate, "purchaseRateNB", None)]

\* d[key] = value
SetItem(d, key, value) == (key :> value) @@ d

\* the inner mapping of line 37 started empty
InitialMappingEmpty(wanted) == EmptyDict

\* the inner mapping of line 37
InitialMapping(wanted) == [currency \in ListItems(wanted) |-> EmptyDict]

\* line 41 accepting every entry
WantedAny(currency, wanted) == TRUE

\* the test of line 41
Wanted(currency, wanted) == InList(currency, wanted)

\* the loop of lines 39-45 over the first n entries, starting from the
\* mapping of line 37
RECURSIVE ApplyRates(_, _, _)
ApplyRates(exchange_rates, wanted, n) ==
    IF n = 0
    THEN InitialMapping(wanted)
    ELSE LET prev == ApplyRates(exchange_rates, wanted, n - 1)
             rate == exchange_rates[n]
             currency == Get(rate, "currency", None)
         IN  IF Wanted(currency, wanted)
             THEN SetItem(prev, currency, RateRecord(rate))
             ELSE prev

process_exchange_rates(data, wanted) ==
    LET date == Get(data, "date", None)
        exchange_rates == Get(data, "exchangeRate", <<>>)
    IN  date :> ApplyRates(exchange_rates, wanted, Len(exchange_rates))

(***************************************************************************)
(* datetime: a date is a day ordinal (0 is 01.01.2024); strftime converts  *)
(* it to the DD.MM.YYYY string by the Gregorian calendar.                  *)
(***************************************************************************)
IsLeap(y) == (y % 4 = 0 /\ y % 100 # 0) \/ y % 400 = 0

DaysInMonth(m, y) ==
    IF m = 2 THEN (IF IsLeap(y) THEN 29 ELSE 28)
    ELSE IF m \in {4, 6, 9, 11} THEN 30 ELSE 31

\* <<day, month, year>> of the date that is `rest` days after the first of
\* month m of year y
RECURSIVE CivilFrom(_, _, _)
CivilFrom(rest, m, y) ==
    IF rest < DaysInMonth(m, y)
    THEN <<rest + 1, m, y>>
    ELSE IF m = 12
         THEN CivilFrom(rest - DaysInMonth(m, y), 1, y + 1)
         ELSE CivilFrom(rest - DaysInMonth(m, y), m + 1, y)

DigitChar(k) ==
    CASE k = 0 -> "0" [] k = 1 -> "1" [] k = 2 -> "2" [] k = 3 -> "3"
      [] k = 4 -> "4" [] k = 5 -> "5" [] k = 6 -> "6" [] k = 7 -> "7"
      [] k = 8 -> "8" [] k = 9 -> "9"

Pad2(n) == DigitChar(n \div 10) \o DigitChar(n % 10)

Pad4(n) == Pad2(n \div 100) \o Pad2(n % 100)

\* date.strftime("%d.%m.%Y")
strftime(ordinal) ==
    LET c == CivilFrom(ordinal, 1, 2024)
    IN  Pad2(c[1]) \o "." \o Pad2(c[2]) \o "." \o Pad4(c[3])

(***************************************************************************)
(* str operations on command line arguments (sequences of characters).     *)
(***************************************************************************)
Digits == {"0", "1", "2", "3", "4", "5", "6", "7", "8", "9"}

DigitValue(c) ==
    CASE c = "0" -> 0 [] c = "1" -> 1 [] c = "2" -> 2 [] c = "3" -> 3
      [] c = "4" -> 4 [] c = "5" -> 5 [] c = "6" -> 6 [] c = "7" -> 7
      [] c = "8" -> 8 [] c = "9" -> 9

RECURSIVE DecimalValue(_, _)
DecimalValue(s, n) ==
    IF n = 0 THEN 0 ELSE DecimalValue(s, n - 1) * 10 + DigitValue(s[n])

\* int(s): an optional sign followed by one or more digits, else ValueError
ParseInt(s) ==
    LET signed == Len(s) > 0 /\ s[1] \in {"-", "+"}
        body == IF signed THEN Tail(s) ELSE s
        value == DecimalValue(body, Len(body))
    IN  IF Len(body) = 0 \/ \E j \in 1..Len(body) : body[j] \notin Digits
        THEN [ok |-> FALSE, value |-> 0]
        ELSE [ok |-> TRUE,
              value |-> IF signed /\ s[1] = "-" THEN 0 - value ELSE value]

\* s.split(","): the list of the strings between the commas
RECURSIVE Split(_, _)
Split(s, n) ==
    IF n = 0 THEN <<"">>
    ELSE LET prev == Split(s, n - 1)
         IN  IF s[n] = ","
             THEN Append(prev, "")
             ELSE [prev EXCEPT ![Len(prev)] = @ \o s[n]]

(***************************************************************************)
(* Exceptions and ExchangeRateFetcher.fetch_exchange_rate                  *)
(***************************************************************************)
\* an exception: its Python type, the type of the exception it was built
\* from ("" when none) and the HTTP status its message carries (0 when none)
Exc(type, cause, status) == [type |-> type, cause |-> cause, status |-> status]

NoExc == Exc("", "", 0)

Returned(value) == [raised |-> FALSE, exc |-> NoExc, value |-> value]

Raised(exc) == [raised |-> TRUE, exc |-> exc, value |-> NoneData]

\* the body of the try block, lines 18-22: resp is what the upstream does
\* with the request, kind "error" standing for an exception raised inside
\* session.get or response.json
FetchTry(resp) ==
    IF resp.kind = "error"
    THEN Raised(Exc("ClientError", "", 0))
    ELSE IF resp.status = 200
         THEN Returned(resp.body)
         ELSE Raised(Exc("ValueError", "", resp.status))

\* lines 17-24: every Exception raised in the try block is replaced by a
\* ConnectionError whose message quotes it
fetch_exchange_rate(resp) ==
    LET r == FetchTry(resp)
    IN  IF r.raised
        THEN Raised(Exc("ConnectionError", r.exc.type, r.exc.status))
        ELSE r

\* the call written with data["date"] and rate["currency"] in place of get
CallProcessorSubscript(data, wanted) ==
    IF data = NoneData
       \/ \E j \in 1..Len(Get(data, "exchangeRate", <<>>)) :
              Get(data, "exchangeRate", <<>>)[j] = NoneData
    THEN Raised(Exc("AttributeError", "", 0))
    ELSE IF "date" \notin DOMAIN data
            \/ \E j \in 1..Len(Get(data, "exchangeRate", <<>>)) :
                   "currency" \notin DOMAIN Get(data, "exchangeRate", <<>>)[j]
         THEN Raised(Exc("KeyError", "", 0))
         ELSE Returned(process_exchange_rates(data, wanted))

\* the outcome of one Processor call: the returned table, or the exception
\* Python raises when data (line 34) or a rate entry (line 40) is None
CallProcessor(data, wanted) ==
    IF data = NoneData
       \/ \E j \in 1..Len(Get(data, "exchangeRate", <<>>)) :
              Get(data, "exchangeRate", <<>>)[j] = NoneData
    THEN Raised(Exc("AttributeError", "", 0))
    ELSE Returned(process_exchange_rates(data, wanted))

(***************************************************************************)
(* Inputs: command lines and upstream responses.                           *)
(***************************************************************************)
Program == <<"t", "a", "s", "k">>

DaysArgs ==
    {<<"x">>, <<"-", "1">>, <<"0">>, <<"1", "1">>}
        \cup {<<DigitChar(k)>> : k \in 1..MaxBatch}

CurrencyArgs == {<<"X", "Y", "Z", ",", "U", "S", "D">>}

Argvs ==
    {<<Program>>}
        \cup {<<Program, d>> : d \in DaysArgs}
        \cup {<<Program, d, c>> : d \in DaysArgs, c \in CurrencyArgs}

SampleRates ==
    <<[currency |-> "USD", saleRateNB |-> "38.5", purchaseRateNB |-> "38.0"],
      [currency |-> "XYZ", saleRateNB |-> "1.0", purchaseRateNB |-> "1.0"]>>

\* the JSON bodies the upstream may send for the date it is asked about
Payloads(date) ==
    {NoneData,
     EmptyDict,
     [baseCurrency |-> "980"],
     [date |-> date, exchangeRate |-> <<>>],
     [date |-> date, exchangeRate |-> SampleRates],
     [date |-> date, exchangeRate |-> <<NoneData>>]}

\* no response yet
NoResponse == [kind |-> "none", status |-> 0, body |-> NoneData]

Responses(date) ==
    {[kind |-> "reply", status |-> 200, body |-> b] : b \in Payloads(date)}
        \cup {[kind |-> "reply", status |-> 503, body |-> NoneData],
              [kind |-> "error", status |-> 0, body |-> NoneData]}

(***************************************************************************)
(* State.                                                                  *)
(***************************************************************************)
VARIABLES
    argv,            \* sys.argv
    pc,              \* position of main and get_exchange_rates
    days,            \* days of get_exchange_rates
    currencies,      \* currencies of get_exchange_rates
    now,             \* the wall clock date read by datetime.now()
    ticks,           \* how many times the clock has advanced
    opened,          \* number of ClientSession contexts entered
    closed,          \* number of ClientSession contexts exited
    i,               \* loop index of line 65
    tasks,           \* the fetch calls of line 67, in dispatch order
    gathered,        \* gather: the results collected so far, by position
    failure,         \* gather: the exception set on its future, if any
    reordered,       \* history: some fetch finished before an earlier one
    raw_data,        \* raw_data of line 69
    processed_data,  \* processed_data of line 71
    calls,           \* number of Processor invocations
    exc,             \* the exception propagating out of get_exchange_rates
    out,             \* the lines printed so far
    pdata,           \* Processor harness: the payload
    pcurrencies,     \* Processor harness: the currency list
    pret             \* Processor harness: the outcomes of the calls made

vars == <<argv, pc, days, currencies, now, ticks, opened, closed, i, tasks,
          gathered, failure, reordered, raw_data, processed_data, calls, exc,
          out, pdata, pcurrencies, pret>>

appVars == <<argv, pc, days, currencies, now, ticks, opened, closed, i, tasks,
             gathered, failure, reordered, raw_data, processed_data, calls,
             exc, out>>

procVars == <<pdata, pcurrencies, pret>>

(***************************************************************************)
(* Helpers of main and get_exchange_rates.                                 *)
(***************************************************************************)
MinDays == 1
MaxDays == 10
DefaultCurrencies == <<"EUR", "USD">>
UnknownDate == "Nevidoma data"

\* the loop written over range(n - 1)
InRangeShort(k, n) == k < n - 1

\* line 65: the loop over range(n) has an iteration left at index k
InRange(k, n) == k < n

\* the test of line 60 written as days < 0
InvalidDaysFromZero(d) == d < 0 \/ d > MaxDays

\* the test of line 60
InvalidDays(d) == d < MinDays \/ d > MaxDays

\* the except clauses without the ConnectionError clause of lines 103-104
HandlerNoNetwork(e) ==
    IF e.type = "ValueError" THEN "Pomylka" ELSE "Neperedbachena pomylka"

\* the except clauses of lines 101-106: the prefix of the printed line
Handler(e) ==
    IF e.type = "ValueError" THEN "Pomylka"
    ELSE IF e.type = "ConnectionError" THEN "Merezheva pomylka"
    ELSE "Neperedbachena pomylka"

ErrorLine(e) == [kind |-> "error", prefix |-> Handler(e), exc |-> e]

\* a coroutine object created by line 67, not yet started; session is the
\* number of the session context it is given
NewTask(session, date) ==
    [session |-> session, date |-> date, state |-> "created",
     resp |-> NoResponse, result |-> Returned(NoneData), onClosed |-> FALSE]

\* the context left only by falling out of the block, without exception
ReleaseOnSuccess(c, e) == IF e = NoExc THEN c + 1 ELSE c

\* line 64: leaving the async with block exits the session context, with
\* or without a pending exception e
Release(c, e) == c + 1

Failed(t) == t.state = "done" /\ t.result.raised
Succeeded(t) == t.state = "done" /\ ~t.result.raised

\* the results kept in the order in which the awaitables finish
PlaceByCompletion(g, k, value) == ((Cardinality(DOMAIN g) + 1) :> value) @@ g

\* asyncio.gather: the result of the k-th awaitable is kept at position k
Place(g, k, value) == (k :> value) @@ g

\* a failed fetch kept as a None result instead of failing the batch
CollectKeepingFailures(g, k, r) == Place(g, k, r.value)

\* asyncio.gather: the callback run when the k-th awaitable finishes with r
Collect(g, k, r) == IF r.raised THEN g ELSE Place(g, k, r.value)

\* asyncio.gather: the exception set on the awaited future
SetFailure(f, r) == IF r.raised /\ f = NoExc THEN r.exc ELSE f

\* asyncio.gather: the list of the results, by position
GatherResults(g) == [k \in 1..Cardinality(DOMAIN g) |-> g[k]]

\* the filter of line 73 without its test of exchangeRate
HasRatesAnyDict(data) == TruthyDict(data)

\* the filter of line 73
HasRates(data) == TruthyDict(data) /\ TruthyList(Get(data, "exchangeRate", None))

\* line 78
WarnDate(data) ==
    IF TruthyDict(data) THEN Get(data, "date", UnknownDate) ELSE UnknownDate

\* the test of line 77 without its test of exchangeRate
NoRatesOnlyEmpty(data) == ~TruthyDict(data)

\* the test of line 77
NoRates(data) ==
    ~TruthyDict(data) \/ ~TruthyList(Get(data, "exchangeRate", None))

\* the lines printed by the loop of lines 76-79
RECURSIVE Warnings(_, _)
Warnings(raw, n) ==
    IF n = 0 THEN <<>>
    ELSE IF NoRates(raw[n])
         THEN Append(Warnings(raw, n - 1),
                     [kind |-> "warning", date |-> WarnDate(raw[n])])
         ELSE Warnings(raw, n - 1)

(***************************************************************************)
(* Initial state: the program has been started with some command line.     *)
(***************************************************************************)
InitApp ==
    /\ pc = "main"
    /\ days = 0
    /\ currencies = <<>>
    /\ now = StartDay
    /\ ticks = 0
    /\ opened = 0
    /\ closed = 0
    /\ i = 0
    /\ tasks = <<>>
    /\ gathered = <<>>
    /\ failure = NoExc
    /\ reordered = FALSE
    /\ raw_data = <<>>
    /\ processed_data = <<>>
    /\ calls = 0
    /\ exc = NoExc
    /\ out = <<>>

Init ==
    /\ argv \in Argvs
    /\ InitApp
    /\ pdata = EmptyDict
    /\ pcurrencies = <<>>
    /\ pret = <<>>

(***************************************************************************)
(* main, lines 86-99, up to the first suspension of get_exchange_rates.    *)
(***************************************************************************)
\* lines 87-89
Usage ==
    /\ pc = "main"
    /\ Len(argv) < 2
    /\ out' = Append(out, [kind |-> "usage"])
    /\ pc' = "done"
    /\ UNCHANGED <<argv, days, currencies, now, ticks, opened, closed, i,
                   tasks, gathered, failure, reordered, raw_data,
                   processed_data, calls, exc>>
    /\ UNCHANGED procVars

\* line 91 raises ValueError, caught at line 101
BadDays ==
    /\ pc = "main"
    /\ Len(argv) >= 2
    /\ ~ParseInt(argv[2]).ok
    /\ exc' = Exc("ValueError", "int", 0)
    /\ out' = Append(out, ErrorLine(exc'))
    /\ pc' = "done"
    /\ UNCHANGED <<argv, days, currencies, now, ticks, opened, closed, i,
                   tasks, gathered, failure, reordered, raw_data,
                   processed_data, calls>>
    /\ UNCHANGED procVars

\* line 92
ParseCurrencies(args) ==
    IF Len(args) > 2 THEN Split(args[3], Len(args[3])) ELSE DefaultCurrencies

\* lines 91-98 and 60-61: get_exchange_rates rejects days
Rejected ==
    /\ pc = "main"
    /\ Len(argv) >= 2
    /\ ParseInt(argv[2]).ok
    /\ InvalidDays(ParseInt(argv[2]).value)
    /\ days' = ParseInt(argv[2]).value
    /\ currencies' = ParseCurrencies(argv)
    /\ exc' = Exc("ValueError", "days", 0)
    /\ out' = Append(out, ErrorLine(exc'))
    /\ pc' = "done"
    /\ UNCHANGED <<argv, now, ticks, opened, closed, i, tasks, gathered,
                   failure, reordered, raw_data, processed_data, calls>>
    /\ UNCHANGED procVars

\* lines 91-98 and 60-64: get_exchange_rates enters the session context
Enter ==
    /\ pc = "main"
    /\ Len(argv) >= 2
    /\ ParseInt(argv[2]).ok
    /\ ~InvalidDays(ParseInt(argv[2]).value)
    /\ days' = ParseInt(argv[2]).value
    /\ currencies' = ParseCurrencies(argv)
    /\ tasks' = <<>>
    /\ opened' = opened + 1
    /\ i' = 0
    /\ pc' = "dispatch"
    /\ UNCHANGED <<argv, now, ticks, closed, gathered, failure, reordered,
                   raw_data, processed_data, calls, exc, out>>
    /\ UNCHANGED procVars

(***************************************************************************)
(* get_exchange_rates, lines 65-69.                                        *)
(***************************************************************************)
\* the wall clock advances between two readings of datetime.now() (an
\* advance before the first reading is a later StartDay)
Tick ==
    /\ pc = "dispatch"
    /\ i >= 1
    /\ InRange(i, days)
    /\ ticks < MaxTicks
    /\ now' = now + 1
    /\ ticks' = ticks + 1
    /\ UNCHANGED <<argv, pc, days, currencies, opened, closed, i, tasks,
                   gathered, failure, reordered, raw_data, processed_data,
                   calls, exc, out>>
    /\ UNCHANGED procVars

\* one iteration of the loop, lines 65-67
Dispatch ==
    /\ pc = "dispatch"
    /\ InRange(i, days)
    /\ tasks' = Append(tasks, NewTask(opened, strftime(now - i)))
    /\ i' = i + 1
    /\ UNCHANGED <<argv, pc, days, currencies, now, ticks, opened, closed,
                   gathered, failure, reordered, raw_data, processed_data,
                   calls, exc, out>>
    /\ UNCHANGED procVars

\* line 69: gather wraps the coroutines in tasks; each runs to its first
\* suspension inside session.get before anything else is scheduled
Gather ==
    /\ pc = "dispatch"
    /\ ~InRange(i, days)
    /\ tasks' = [k \in 1..Len(tasks) |-> [tasks[k] EXCEPT !.state = "inflight"]]
    /\ pc' = "join"
    /\ UNCHANGED <<argv, days, currencies, now, ticks, opened, closed, i,
                   gathered, failure, reordered, raw_data, processed_data,
                   calls, exc, out>>
    /\ UNCHANGED procVars

\* fetch_exchange_rate k resumes with the upstream's response and finishes;
\* the callback of gather keeps its result or, for the first fetch that
\* fails, sets the exception on the future awaited at line 69
Resolve(k, resp) ==
    /\ pc \in {"join", "aexit", "done"}
    /\ tasks[k].state = "inflight"
    /\ LET r == fetch_exchange_rate(resp)
       IN  /\ tasks' = [tasks EXCEPT ![k] =
                           [@ EXCEPT !.state = "done",
                                     !.resp = resp,
                                     !.result = r,
                                     !.onClosed = (closed > 0)]]
           /\ gathered' = Collect(gathered, k, r)
           /\ failure' = SetFailure(failure, r)
    /\ reordered' = (reordered \/ \E j \in 1..(k - 1) : tasks[j].state = "inflight")
    /\ UNCHANGED <<argv, pc, days, currencies, now, ticks, opened, closed, i,
                   raw_data, processed_data, calls, exc, out>>
    /\ UNCHANGED procVars

\* line 69: a result is kept for every fetch; gather returns the results
JoinOk ==
    /\ pc = "join"
    /\ DOMAIN gathered = 1..Len(tasks)
    /\ raw_data' = GatherResults(gathered)
    /\ pc' = "aexit"
    /\ UNCHANGED <<argv, days, currencies, now, ticks, opened, closed, i,
                   tasks, gathered, failure, reordered, processed_data, calls,
                   exc, out>>
    /\ UNCHANGED procVars

\* line 69: gather (return_exceptions=False) raises the first exception as
\* soon as one fetch has failed; the other fetches are left running
JoinFail ==
    /\ pc = "join"
    /\ failure # NoExc
    /\ exc' = failure
    /\ pc' = "aexit"
    /\ UNCHANGED <<argv, days, currencies, now, ticks, opened, closed, i,
                   tasks, gathered, failure, reordered, raw_data,
                   processed_data, calls, out>>
    /\ UNCHANGED procVars

\* line 64: the session context exits; a pending exception then propagates
\* to the except clauses of main
ExitSession ==
    /\ pc = "aexit"
    /\ closed' = Release(closed, exc)
    /\ IF exc # NoExc
       THEN /\ out' = Append(out, ErrorLine(exc))
            /\ pc' = "done"
       ELSE /\ out' = out
            /\ pc' = "process"
    /\ UNCHANGED <<argv, days, currencies, now, ticks, opened, i, tasks,
                   gathered, failure, reordered, raw_data, processed_data,
                   calls, exc>>
    /\ UNCHANGED procVars

(***************************************************************************)
(* get_exchange_rates, lines 71-81, and the return to main, line 99.       *)
(***************************************************************************)
Min(S) == CHOOSE n \in S : \A m \in S : n <= m

\* lines 71-74: the Processor is called on each payload that has rates; an
\* exception raised by a call propagates to the except clauses of main
ProcessPass ==
    /\ pc = "process"
    /\ LET included == SelectSeq(raw_data, HasRates)
           rets == [n \in 1..Len(included) |->
                       CallProcessor(included[n], currencies)]
           raising == {n \in 1..Len(included) : rets[n].raised}
       IN  IF raising = {}
           THEN /\ processed_data' = [n \in 1..Len(included) |-> rets[n].value]
                /\ calls' = calls + Len(included)
                /\ pc' = "warn"
                /\ UNCHANGED <<exc, out>>
           ELSE /\ calls' = calls + Min(raising)
                /\ exc' = rets[Min(raising)].exc
                /\ out' = Append(out, ErrorLine(exc'))
                /\ pc' = "done"
                /\ UNCHANGED processed_data
    /\ UNCHANGED <<argv, days, currencies, now, ticks, opened, closed, i,
                   tasks, gathered, failure, reordered, raw_data>>
    /\ UNCHANGED procVars

\* lines 76-81 and 99: the warnings are printed, then the returned list
WarnPass ==
    /\ pc = "warn"
    /\ out' = out \o Warnings(raw_data, Len(raw_data))
                  \o <<[kind |-> "rates", rates |-> processed_data]>>
    /\ pc' = "done"
    /\ UNCHANGED <<argv, days, currencies, now, ticks, opened, closed, i,
                   tasks, gathered, failure, reordered, raw_data,
                   processed_data, calls, exc>>
    /\ UNCHANGED procVars

\* line 111: asyncio.run cancels the fetches that are still running when
\* main has returned
Shutdown ==
    /\ pc = "done"
    /\ tasks' = [k \in 1..Len(tasks) |->
                    IF tasks[k].state = "inflight"
                    THEN [tasks[k] EXCEPT !.state = "cancelled"]
                    ELSE tasks[k]]
    /\ pc' = "exited"
    /\ UNCHANGED <<argv, days, currencies, now, ticks, opened, closed, i,
                   gathered, failure, reordered, raw_data, processed_data,
                   calls, exc, out>>
    /\ UNCHANGED procVars

Next ==
    \/ Usage
    \/ BadDays
    \/ Rejected
    \/ Enter
    \/ Tick
    \/ Dispatch
    \/ Gather
    \/ \E k \in 1..Len(tasks) : \E resp \in Responses(tasks[k].date) :
           Resolve(k, resp)
    \/ JoinOk
    \/ JoinFail
    \/ ExitSession
    \/ ProcessPass
    \/ WarnPass
    \/ Shutdown

Spec == Init /\ [][Next]_vars

(***************************************************************************)
(* A harness for the Processor alone: process_exchange_rates is called     *)
(* on a payload and a currency list drawn from bounded sets.               *)
(***************************************************************************)
OptField(key, values) == {EmptyDict} \cup {key :> v : v \in values}

ProcEntries ==
    {c @@ s @@ p : c \in OptField("currency", {"USD", "XYZ"}),
                   s \in OptField("saleRateNB", {"1.0", "2.0"}),
                   p \in OptField("purchaseRateNB", {"3.0"})}

ProcEntrySeqs ==
    UNION {[1..n -> ProcEntries \cup {NoneData}] : n \in 0..MaxEntries}

ProcPayloads ==
    {NoneData}
        \cup {d @@ r : d \in OptField("date", {"01.01.2024"}),
                       r \in OptField("exchangeRate", ProcEntrySeqs)}

WantedLists == UNION {[1..n -> {"USD", "EUR"}] : n \in 0..MaxWanted}

InitProc ==
    /\ argv = <<Program>>
    /\ InitApp
    /\ pdata \in ProcPayloads
    /\ pcurrencies \in WantedLists
    /\ pret = <<>>

\* the call written with data.pop("exchangeRate", []) at line 35
ArgsAfterPop(data, wanted) ==
    <<[key \in DOMAIN data \ {"exchangeRate"} |-> data[key]], wanted>>

\* the argument objects as a call leaves them: lines 34-45 read data, its
\* rate entries and currencies (get, iteration, in) and assign only to the
\* new dict processed_data
ArgsAfter(data, wanted) == <<data, wanted>>

\* one call of process_exchange_rates(pdata, pcurrencies)
ProcCall ==
    /\ Len(pret) < 2
    /\ pret' = Append(pret, CallProcessor(pdata, pcurrencies))
    /\ pdata' = ArgsAfter(pdata, pcurrencies)[1]
    /\ pcurrencies' = ArgsAfter(pdata, pcurrencies)[2]
    /\ UNCHANGED appVars

NextProc == ProcCall

SpecProc == InitProc /\ [][NextProc]_vars

(***************************************************************************)
(* Properties of the batch (checked under Spec).                           *)
(***************************************************************************)

\* C1: when the days argument is not a number or lies outside 1..10, the run
\* ends with a ValueError reported on the validation line, no session
\* context is ever entered and no fetch call is ever made.
C1_InvalidDaysRejected ==
    (/\ Len(argv) >= 2
     /\ \/ ~ParseInt(argv[2]).ok
        \/ ParseInt(argv[2]).value < 1
        \/ ParseInt(argv[2]).value > 10)
    => /\ opened = 0
       /\ tasks = <<>>
       /\ pc # "main" =>
            /\ exc.type = "ValueError"
            /\ out = <<[kind |-> "error", prefix |-> "Pomylka", exc |-> exc]>>

C1_Witness ==
    /\ pc = "done"
    /\ Len(argv) >= 2
    /\ ParseInt(argv[2]).ok
    /\ ParseInt(argv[2]).value > 10
    /\ Len(out) = 1

\* C2: once a dispatched fetch has failed, the batch is lost as a whole: no
\* result list is taken from gather, the Processor is never called, neither
\* a warning nor a result is printed, and the call ends with the exception of
\* a fetch that failed.
C2_AllOrNothing ==
    (\E k \in 1..Len(tasks) : tasks[k].state = "done" /\ tasks[k].result.raised)
    => /\ raw_data = <<>>
       /\ processed_data = <<>>
       /\ calls = 0
       /\ pc \notin {"process", "warn"}
       /\ \A n \in 1..Len(out) : out[n].kind \notin {"warning", "rates"}
       /\ pc \in {"done", "exited"} =>
            /\ exc # NoExc
            /\ \E k \in 1..Len(tasks) :
                   /\ tasks[k].state = "done"
                   /\ tasks[k].result.raised
                   /\ exc = tasks[k].result.exc

C2_Witness ==
    /\ pc = "exited"
    /\ \E k \in 1..Len(tasks) : tasks[k].state = "done" /\ tasks[k].result.raised
    /\ \E k \in 1..Len(tasks) : tasks[k].state = "done" /\ ~tasks[k].result.raised

\* C3 (as claimed): a fetch answered with a status other than 200 fails with
\* a ValueError (the DataError of the specification) that carries the status.
C3_NonOkStatusIsDataError ==
    \A k \in 1..Len(tasks) :
        (/\ tasks[k].state = "done"
         /\ tasks[k].resp.kind = "reply"
         /\ tasks[k].resp.status # 200)
        => /\ tasks[k].result.raised
           /\ tasks[k].result.exc.type = "ValueError"
           /\ tasks[k].result.exc.status = tasks[k].resp.status

\* C4: with valid days, never more than days fetch calls are made, exactly
\* days have been made once the loop is left, and all of them are made and
\* started before the Processor is called or a warning is printed.
C4_ExactlyDaysFetches ==
    opened = 1
    => /\ days \in 1..10
       /\ Len(tasks) <= days
       /\ pc # "dispatch" => Len(tasks) = days
       /\ (\/ calls > 0
           \/ pc \in {"process", "warn"}
           \/ \E n \in 1..Len(out) : out[n].kind = "warning")
          => /\ Len(tasks) = days
             /\ \A k \in 1..Len(tasks) : tasks[k].state # "created"

C4_Witness ==
    /\ pc = "done"
    /\ days >= 2
    /\ calls > 0
    /\ \E n \in 1..Len(out) : out[n].kind = "warning"

\* C5 (as claimed): get_exchange_rates is past the join only when every
\* dispatched fetch has resolved.
C5_JoinWaitsForAll ==
    (opened = 1 /\ pc \in {"aexit", "process", "warn", "done", "exited"})
    => \A k \in 1..Len(tasks) : tasks[k].state = "done"

\* C6: in a successful batch the list returned by gather holds the payloads
\* in dispatch order, whatever the order in which the fetches finished, and
\* the returned tables are those of the payloads with rates, in that order.
C6_DispatchOrder ==
    LET payloads == [k \in 1..Len(tasks) |-> tasks[k].resp.body]
        kept == SelectSeq(payloads, HasRates)
    IN  /\ (/\ opened = 1
            /\ failure = NoExc
            /\ pc \in {"aexit", "process", "warn", "done", "exited"})
           => raw_data = payloads
        /\ (opened = 1 /\ exc = NoExc /\ pc \in {"warn", "done", "exited"})
           => processed_data =
                 [n \in 1..Len(kept) |->
                     process_exchange_rates(kept[n], currencies)]

C6_Witness ==
    /\ reordered
    /\ pc = "done"
    /\ exc = NoExc
    /\ Len(processed_data) >= 2
    /\ processed_data[1] # processed_data[2]

\* C7: in a successful batch there is one table for each payload that
\* carries at least one rate entry, in order, and none for the others: the
\* number of tables is days minus the number of payloads without data.
C7_TablesForDataOnly ==
    (opened = 1 /\ exc = NoExc /\ pc \in {"warn", "done", "exited"})
    => LET Carries(p) ==
               /\ p # NoneData
               /\ "exchangeRate" \in DOMAIN p
               /\ Len(p.exchangeRate) >= 1
           payloads == [k \in 1..Len(tasks) |-> tasks[k].resp.body]
           data == SelectSeq(payloads, Carries)
           nodata == {k \in 1..Len(payloads) : ~Carries(payloads[k])}
       IN  /\ Len(processed_data) = Len(data)
           /\ Len(processed_data) = days - Cardinality(nodata)
           /\ \A n \in 1..Len(data) :
                  DOMAIN processed_data[n] = {Get(data[n], "date", None)}

C7_Witness ==
    /\ pc = "done"
    /\ exc = NoExc
    /\ Len(processed_data) >= 1
    /\ Len(processed_data) < days

\* C8: in a successful batch every payload without rate entries is reported
\* by exactly one warning, which names its date field or the unknown date
\* when the payload is absent, empty or has no date; a payload with rate
\* entries is not reported; every payload is either reported or included.
C8_OneWarningPerNoData ==
    (opened = 1 /\ exc = NoExc /\ pc \in {"done", "exited"})
    => LET Lacks(p) ==
               \/ p = NoneData
               \/ "exchangeRate" \notin DOMAIN p
               \/ Len(p.exchangeRate) = 0
           Expected(p) ==
               IF p = NoneData \/ "date" \notin DOMAIN p
               THEN "Nevidoma data"
               ELSE p.date
           IsWarning(line) == line.kind = "warning"
           payloads == [k \in 1..Len(tasks) |-> tasks[k].resp.body]
           nodata == SelectSeq(payloads, Lacks)
           warned == SelectSeq(out, IsWarning)
       IN  /\ Len(warned) = Len(nodata)
           /\ \A n \in 1..Len(nodata) : warned[n].date = Expected(nodata[n])
           /\ Len(warned) + Len(processed_data) = days

C8_Witness ==
    /\ pc = "done"
    /\ exc = NoExc
    /\ processed_data # <<>>
    /\ \E n \in 1..Len(out) :
           out[n].kind = "warning" /\ out[n].date = "Nevidoma data"
    /\ \E n \in 1..Len(out) :
           out[n].kind = "warning" /\ out[n].date # "Nevidoma data"

(***************************************************************************)
(* Properties of the Processor (checked under SpecProc).                   *)
(***************************************************************************)

\* C9: every requested currency is a key of the mapping of the returned
\* table, and one that no rate entry of the payload carries is mapped to
\* the empty record.
C9_RequestedKeysPresent ==
    \A n \in 1..Len(pret) :
        ~pret[n].raised
        => LET rates == IF "exchangeRate" \in DOMAIN pdata
                        THEN pdata.exchangeRate ELSE <<>>
           IN  /\ Cardinality(DOMAIN pret[n].value) = 1
               /\ \A d \in DOMAIN pret[n].value :
                  \A j \in 1..Len(pcurrencies) :
                      /\ pcurrencies[j] \in DOMAIN pret[n].value[d]
                      /\ (\A e \in 1..Len(rates) :
                              \/ "currency" \notin DOMAIN rates[e]
                              \/ rates[e].currency # pcurrencies[j])
                         => pret[n].value[d][pcurrencies[j]] = EmptyDict

C9_Witness ==
    /\ pret # <<>>
    /\ ~pret[1].raised
    /\ \E j \in 1..Len(pcurrencies) : pcurrencies[j] = "EUR"
    /\ "exchangeRate" \in DOMAIN pdata
    /\ Len(pdata.exchangeRate) >= 1
    /\ \E d \in DOMAIN pret[1].value : pret[1].value[d]["EUR"] = EmptyDict

\* C10: the mapping of the returned table has no key outside the requested
\* currencies, so its key set is the set of the requested currencies.
C10_OnlyRequestedKeys ==
    \A n \in 1..Len(pret) :
        ~pret[n].raised
        => \A d \in DOMAIN pret[n].value :
               /\ \A c \in DOMAIN pret[n].value[d] :
                      \E j \in 1..Len(pcurrencies) : pcurrencies[j] = c
               /\ DOMAIN pret[n].value[d]
                     = {pcurrencies[j] : j \in 1..Len(pcurrencies)}

C10_Witness ==
    /\ pret # <<>>
    /\ ~pret[1].raised
    /\ pcurrencies # <<>>
    /\ "exchangeRate" \in DOMAIN pdata
    /\ \E e \in 1..Len(pdata.exchangeRate) :
           /\ "currency" \in DOMAIN pdata.exchangeRate[e]
           /\ pdata.exchangeRate[e].currency = "XYZ"

(***************************************************************************)
(* Properties of the session context (checked under Spec).                 *)
(***************************************************************************)

\* C11: a call with valid days enters exactly one session context, every
\* fetch of the batch is given that context, the context is not exited
\* before the join is left, and it has been exited exactly once on every
\* path out of the batch, whether the join returned or raised.
C11_OneSessionReleasedOnce ==
    /\ opened <= 1
    /\ closed <= opened
    /\ (/\ pc # "main"
        /\ Len(argv) >= 2
        /\ ParseInt(argv[2]).ok
        /\ ParseInt(argv[2]).value \in 1..10) => opened = 1
    /\ \A k \in 1..Len(tasks) : tasks[k].session = 1
    /\ pc \in {"dispatch", "join", "aexit"} => closed = 0
    /\ (opened = 1 /\ pc \in {"process", "warn", "done", "exited"})
       => closed = 1

C11_Witness ==
    /\ pc = "done"
    /\ opened = 1
    /\ closed = 1
    /\ exc.type = "ConnectionError"
    /\ Len(tasks) >= 2

C13_OneOutcome ==
    (pc \in {"done", "exited"} /\ Len(argv) >= 2)
    => LET IsError(line) == line.kind = "error"
           IsRates(line) == line.kind = "rates"
           errors == SelectSeq(out, IsError)
           results == SelectSeq(out, IsRates)
       IN  /\ Len(errors) + Len(results) = 1
           /\ out[Len(out)].kind \in {"error", "rates"}
           /\ Len(results) = 1
              => /\ exc = NoExc
                 /\ results[1].rates = processed_data
           /\ Len(errors) = 1
              => /\ Len(out) = 1
                 /\ exc # NoExc
                 /\ errors[1].exc = exc
                 /\ exc.type = "ValueError"
                    => errors[1].prefix = "Pomylka"
                 /\ exc.type = "ConnectionError"
                    => errors[1].prefix = "Merezheva pomylka"
                 /\ exc.type \notin {"ValueError", "ConnectionError"}
                    => errors[1].prefix = "Neperedbachena pomylka"
                 /\ exc.cause = "ClientError"
                    => errors[1].prefix = "Merezheva pomylka"

C13_Witness ==
    /\ pc = "done"
    /\ Len(out) = 1
    /\ out[1].kind = "error"
    /\ out[1].prefix = "Neperedbachena pomylka"
    /\ exc.type = "AttributeError"

\* C14: on a payload that is a dict whose rate entries are dicts, with the
\* date field and any field of any entry possibly missing, the call returns
\* a table and does not raise; a missing date gives the key None and every
\* record written from an entry has both fields, a missing one being None.
C14_NeverRaises ==
    \A n \in 1..Len(pret) :
        LET rates == IF "exchangeRate" \in DOMAIN pdata
                     THEN pdata.exchangeRate ELSE <<>>
        IN  (/\ pdata # NoneData
             /\ \A e \in 1..Len(rates) : rates[e] # NoneData)
            => /\ ~pret[n].raised
               /\ "date" \notin DOMAIN pdata
                  => DOMAIN pret[n].value = {"None"}
               /\ \A d \in DOMAIN pret[n].value :
                  \A c \in DOMAIN pret[n].value[d] :
                      \/ pret[n].value[d][c] = EmptyDict
                      \/ DOMAIN pret[n].value[d][c] = {"sale", "purchase"}

C14_Witness ==
    /\ pret # <<>>
    /\ ~pret[1].raised
    /\ "date" \notin DOMAIN pdata
    /\ "exchangeRate" \in DOMAIN pdata
    /\ Len(pdata.exchangeRate) = 2
    /\ "currency" \notin DOMAIN pdata.exchangeRate[1]
    /\ pdata.exchangeRate[2] = [currency |-> "USD"]
    /\ DOMAIN pret[1].value = {"None"}
    /\ "USD" \in DOMAIN pret[1].value["None"]
    /\ pret[1].value["None"]["USD"] = [sale |-> "None", purchase |-> "None"]

\* C15: the single key of the returned table is the date field of the
\* payload (None when it is missing), and every requested currency that
\* some rate entry carries is mapped to the sale and purchase rates of the
\* last such entry, a rate missing from that entry being absent (None).
C15_ReferenceTable ==
    \A n \in 1..Len(pret) :
        ~pret[n].raised
        => LET rates == IF "exchangeRate" \in DOMAIN pdata
                        THEN pdata.exchangeRate ELSE <<>>
               date == IF "date" \in DOMAIN pdata THEN pdata.date ELSE "None"
           IN  /\ DOMAIN pret[n].value = {date}
               /\ \A j \in 1..Len(pcurrencies) :
                      LET carrying ==
                              {e \in 1..Len(rates) :
                                  /\ "currency" \in DOMAIN rates[e]
                                  /\ rates[e].currency = pcurrencies[j]}
                      IN  carrying # {}
                          => LET last == CHOOSE e \in carrying :
                                             \A f \in carrying : f <= e
                                 rec == pret[n].value[date][pcurrencies[j]]
                             IN  /\ DOMAIN rec \subseteq {"sale", "purchase"}
                                 /\ (IF "sale" \in DOMAIN rec
                                     THEN rec.sale ELSE "None")
                                    = (IF "saleRateNB" \in DOMAIN rates[last]
                                       THEN rates[last].saleRateNB
                                       ELSE "None")
                                 /\ (IF "purchase" \in DOMAIN rec
                                     THEN rec.purchase ELSE "None")
                                    = (IF "purchaseRateNB"
                                            \in DOMAIN rates[last]
                                       THEN rates[last].purchaseRateNB
                                       ELSE "None")

C15_Witness ==
    /\ pret # <<>>
    /\ ~pret[1].raised
    /\ pcurrencies = <<"USD", "EUR">>
    /\ "date" \in DOMAIN pdata
    /\ "exchangeRate" \in DOMAIN pdata
    /\ pdata.exchangeRate =
           <<[currency |-> "USD", saleRateNB |-> "1.0",
              purchaseRateNB |-> "3.0"],
             [currency |-> "USD", saleRateNB |-> "2.0"]>>
    /\ pret[1].value[pdata.date]["USD"] = [sale |-> "2.0", purchase |-> "None"]

\* C16 (as claimed): the session is never released while a dispatched fetch
\* of the batch is still in flight, and no fetch resolves against a session
\* that has already been released.
C16_NoReleaseWhileInFlight ==
    closed > 0
    => \A k \in 1..Len(tasks) :
           /\ tasks[k].state # "inflight"
           /\ ~tasks[k].onClosed

\* C17 (as claimed): once the dispatch loop is over, the dates of the batch
\* are pairwise distinct and are one single today minus 0, 1, ..., days - 1
\* days, whatever the clock did between the iterations.
C17_DistinctDatesOfOneToday ==
    (opened = 1 /\ pc \notin {"main", "dispatch"})
    => /\ Len(tasks) = days
       /\ \A j, k \in 1..Len(tasks) :
              j # k => tasks[j].date # tasks[k].date
       /\ \E today \in StartDay..(StartDay + MaxTicks) :
              \A k \in 1..Len(tasks) : tasks[k].date = strftime(today - (k - 1))

====
